---- MODULE Spec2Model ----
(***************************************************************************)
(* A model of personal_accounting.py: the CSV record store (ensure_storage,*)
(* write_row, write_all, read_all), the ECB rate lookup (get_ecb_rates,    *)
(* eur_from) and the five commands (add-cash, add-real-estate, list,       *)
(* total, dedupe).                                                         *)
(*                                                                         *)
(* Representation.                                                         *)
(*  - The store file is absent, or the header line followed by rows; a row *)
(*    is a record of eleven text fields (csv.DictWriter / csv.DictReader   *)
(*    are library code: they carry each field's text unchanged).           *)
(*  - A Python float is an integer count of quarters (1.0 is One).  The    *)
(*    model only uses dyadic values on which IEEE-754 double arithmetic is *)
(*    exact, so the integer arithmetic below is what Python computes.      *)
(*  - str(float) and float(str) are modelled on real text ("0.25", "2.0"). *)
(*  - An optional argument (argparse's None) is <<>>, a given one <<v>>.   *)
(***************************************************************************)
EXTENDS Integers, Sequences, FiniteSets, TLC

VARIABLES
    file,       \* accounts.csv: [exists, rows]
    fetched,    \* history: the rates of the most recent get_ecb_rates() call that returned
    last,       \* history: what the most recent command did
    prevFile,   \* history: accounts.csv as it was before the most recent command
    pcD,        \* concurrent runs: position of the process running dedupe
    pcA,        \* concurrent runs: position of the process running an add command
    snapshot,   \* concurrent runs: the rows the dedupe process has read
    pending,    \* concurrent runs: the record the add process is writing
    log         \* concurrent runs: history of the completed file operations

vars == <<file, fetched, last, prevFile, pcD, pcA, snapshot, pending, log>>

-----------------------------------------------------------------------------
(* Bounds of the model *)

MaxRows == 2
MaxFloat == 32

-----------------------------------------------------------------------------
(* Python values *)

None == <<>>
Some(v) == <<v>>
IsNone(o) == o = <<>>
Get(o) == o[1]

\* 1.0 as a count of quarters.
One == 2 * 2

FracText == <<".0", ".25", ".5", ".75">>

\* str(x) of a non-negative float x, as csv.DictWriter writes it.
FloatRepr(q) == ToString(q \div One) \o FracText[(q % One) + 1]

\* Texts other than repr output that float() accepts, with their values.
FloatLiterals == {<<"2", 2 * One>>, <<"0", 0>>}

\* The texts repr produces for the floats of the model.
ReprTexts == [q \in 0..MaxFloat |-> FloatRepr(q)]

\* Whether float(t) returns (it raises ValueError otherwise).
IsFloatText(t) ==
    \/ \E q \in 0..MaxFloat : ReprTexts[q] = t
    \/ \E p \in FloatLiterals : p[1] = t

\* float(t) for a text float() accepts.
ParseFloat(t) ==
    IF \E q \in 0..MaxFloat : ReprTexts[q] = t
    THEN CHOOSE q \in 0..MaxFloat : ReprTexts[q] = t
    ELSE (CHOOSE p \in FloatLiterals : p[1] = t)[2]

\* a / b and a * b on floats.
FDiv(a, b) == (a * One) \div b
FMul(a, b) == (a * b) \div One

\* str.upper() and str.strip() on the strings of the model.
UpperTable == <<<<"eur", "EUR">>, <<"usd", "USD">>>>
Upper(s) ==
    IF \E i \in 1..Len(UpperTable) : UpperTable[i][1] = s
    THEN UpperTable[CHOOSE i \in 1..Len(UpperTable) : UpperTable[i][1] = s][2]
    ELSE s

StripTable == <<<<" A", "A">>, <<"2025-01-01 ", "2025-01-01">>>>
Strip(s) ==
    IF \E i \in 1..Len(StripTable) : StripTable[i][1] = s
    THEN StripTable[CHOOSE i \in 1..Len(StripTable) : StripTable[i][1] = s][2]
    ELSE s

\* The strings of the model in Python's (code point) order.
StringOrder == <<" A", "2025-01-01", "2025-01-01 ", "A", "B">>
Rank(s) == CHOOSE i \in 1..Len(StringOrder) : StringOrder[i] = s

-----------------------------------------------------------------------------
(* Data model *)

NumericColumns == {"quantity", "unit_price_eur", "value_eur"}

\* `float(row[c]) if row[c] else 0.0`
FieldFloat(t) == IF t = "" THEN 0 ELSE ParseFloat(t)

\* Whether from_csv_row returns (float() raises ValueError otherwise).
RowParses(row) == \A c \in NumericColumns : row[c] = "" \/ IsFloatText(row[c])

from_csv_row(row) ==
    [row EXCEPT !.quantity = FieldFloat(@),
                !.unit_price_eur = FieldFloat(@),
                !.value_eur = FieldFloat(@)]

\* asdict(acct) as csv.DictWriter.writerow writes it: floats through str().
AsRow(acct) ==
    [acct EXCEPT !.quantity = FloatRepr(@),
                 !.unit_price_eur = FloatRepr(@),
                 !.value_eur = FloatRepr(@)]

AsRows(accts) == [i \in 1..Len(accts) |-> AsRow(accts[i])]

-----------------------------------------------------------------------------
(* Storage *)

NoFile == [exists |-> FALSE, rows |-> <<>>]

\* The file open("w") and writeheader() leave: the header and no row.
HeaderOnly == [exists |-> TRUE, rows |-> <<>>]

ensure_storage(f) == IF f.exists THEN f ELSE HeaderOnly

write_row(f, acct) ==
    LET g == ensure_storage(f)
    IN [g EXCEPT !.rows = Append(@, AsRow(acct))]

\* write_all with the file opened in mode "a" instead of "w".
write_all_appending(f, accts) ==
    LET g == ensure_storage(f)
    IN [g EXCEPT !.rows = @ \o AsRows(accts)]

write_all(f, accts) ==
    LET g == ensure_storage(f)
    IN [g EXCEPT !.rows = AsRows(accts)]

\* read_all's return value: the parsed rows, or the exception of the first
\* row that does not parse.
read_all(f) ==
    LET rows == ensure_storage(f).rows
    IN IF \A i \in 1..Len(rows) : RowParses(rows[i])
       THEN [raised |-> "", rows |-> [i \in 1..Len(rows) |-> from_csv_row(rows[i])]]
       ELSE [raised |-> "ValueError", rows |-> <<>>]

-----------------------------------------------------------------------------
(* FX utilities *)

\* `if x:` on an optional string and on an optional float.
TruthyStr(o) == ~IsNone(o) /\ Get(o) # ""
TruthyFloat(o) == ~IsNone(o) /\ Get(o) # 0

EurOnly == [c \in {"EUR"} |-> One]
Put(d, k, v) == [c \in DOMAIN d \cup {k} |-> IF c = k THEN v ELSE d[c]]

\* What urlopen(ECB_DAILY_URL) yields: no response, bytes that are not XML,
\* or a document.  A document's elements are in the ECB namespace (ns) or
\* in none; days are its <Cube time=...> elements in document order, each a
\* sequence of <Cube currency=... rate=...> children.
Cube(cur, rate) == [currency |-> cur, rate |-> rate]
Unreachable == [kind |-> "unreachable", ns |-> FALSE, days |-> <<>>]
NotXml == [kind |-> "malformed", ns |-> FALSE, days |-> <<>>]
Xml(ns, days) == [kind |-> "xml", ns |-> ns, days |-> days]

\* The loop over the first day's cubes (lines 150-154).
RECURSIVE LoadCubes(_, _)
LoadCubes(cubes, rates) ==
    IF cubes = <<>> THEN [raised |-> "", rates |-> rates]
    ELSE LET cube == Head(cubes)
         IN IF TruthyStr(cube.currency) /\ TruthyStr(cube.rate)
            THEN IF IsFloatText(Get(cube.rate))
                 THEN LoadCubes(Tail(cubes),
                                Put(rates, Upper(Get(cube.currency)),
                                    ParseFloat(Get(cube.rate))))
                 ELSE [raised |-> "ValueError", rates |-> rates]
            ELSE LoadCubes(Tail(cubes), rates)

\* The elements root.findall(".//Cube[@time]") matches: the path names the
\* tag without a namespace, so it matches no element of a namespaced document.
FindDays(doc) == IF doc.ns THEN <<>> ELSE doc.days

get_ecb_rates(doc) ==
    IF doc.kind = "unreachable" THEN [raised |-> "URLError", rates |-> EurOnly]
    ELSE IF doc.kind = "malformed" THEN [raised |-> "ParseError", rates |-> EurOnly]
    ELSE LET days == FindDays(doc)
         IN IF days = <<>> THEN [raised |-> "", rates |-> EurOnly]
            ELSE LoadCubes(days[1], EurOnly)

eur_from(amount, currency, rates) ==
    LET cur == Upper(currency)
    IN IF cur = "EUR" THEN [raised |-> "", value |-> amount]
       ELSE IF cur \notin DOMAIN rates THEN [raised |-> "ValueError", value |-> 0]
       ELSE IF rates[cur] = 0 THEN [raised |-> "ZeroDivisionError", value |-> 0]
       ELSE [raised |-> "", value |-> FDiv(amount, rates[cur])]

-----------------------------------------------------------------------------
(* Commands *)

\* `value_eur / amount if amount else 0.0`
UnitPrice(value_eur, amount) == IF amount # 0 THEN FDiv(value_eur, amount) ELSE 0

\* The EUR test on the currency as typed, without upper().
IsEurAsTyped(currency) == currency = "EUR"

\* Whether cmd_add_cash takes the branch that needs no rate (lines 175-177).
IsEur(currency) == Upper(currency) = "EUR"

\* The try block of cmd_add_cash (lines 182-184).
Lookup(amount, currency, doc) ==
    LET r == get_ecb_rates(doc)
        v == eur_from(amount, currency, r.rates)
    IN IF r.raised # ""
       THEN [raised |-> r.raised, value_eur |-> 0, unit_price_eur |-> 0,
             returned |-> FALSE, rates |-> None]
       ELSE IF v.raised # ""
       THEN [raised |-> v.raised, value_eur |-> 0, unit_price_eur |-> 0,
             returned |-> TRUE, rates |-> Some(r.rates)]
       ELSE [raised |-> "", value_eur |-> v.value,
             unit_price_eur |-> UnitPrice(v.value, amount),
             returned |-> TRUE, rates |-> Some(r.rates)]

\* The except block without its raise: the record is built with a zero value.
OnExceptionCarryOn(offline_rate, amount, exc) ==
    IF TruthyFloat(offline_rate)
    THEN LET value_eur == FDiv(amount, Get(offline_rate))
         IN [raised |-> "", value_eur |-> value_eur,
             unit_price_eur |-> UnitPrice(value_eur, amount)]
    ELSE [raised |-> "", value_eur |-> 0, unit_price_eur |-> 0]

\* The except block of cmd_add_cash (lines 185-191), entered with exception exc.
OnException(offline_rate, amount, exc) ==
    IF TruthyFloat(offline_rate)
    THEN LET value_eur == FDiv(amount, Get(offline_rate))
         IN [raised |-> "", value_eur |-> value_eur,
             unit_price_eur |-> UnitPrice(value_eur, amount)]
    ELSE [raised |-> exc, value_eur |-> 0, unit_price_eur |-> 0]

NoFx == [called |-> FALSE, returned |-> FALSE, rates |-> None, raised |-> ""]

\* Lines 174-191: the value, the unit price and the use made of the provider.
Valuation(args, doc) ==
    LET amount == args.amount
        currency == Upper(args.currency)
    IN IF IsEur(args.currency)
       THEN [raised |-> "", value_eur |-> amount, unit_price_eur |-> One, fx |-> NoFx]
       ELSE LET l == Lookup(amount, currency, doc)
                fx == [called |-> TRUE, returned |-> l.returned, rates |-> l.rates,
                       raised |-> l.raised]
                e == OnException(args.offline_rate, amount, l.raised)
            IN IF l.raised = ""
               THEN [raised |-> "", value_eur |-> l.value_eur,
                     unit_price_eur |-> l.unit_price_eur, fx |-> fx]
               ELSE [raised |-> e.raised, value_eur |-> e.value_eur,
                     unit_price_eur |-> e.unit_price_eur, fx |-> fx]

\* Lines 193-205.
CashAccount(args, id, v) ==
    [id |-> id,
     name |-> args.name,
     category |-> IF IsNone(args.category) THEN "Cash" ELSE Get(args.category),
     subtype |-> Upper(args.currency),
     location |-> "",
     quantity |-> args.amount,
     unit |-> Upper(args.currency),
     unit_price_eur |-> v.unit_price_eur,
     valuation_date |-> args.date,
     value_eur |-> v.value_eur,
     notes |-> IF TruthyStr(args.notes) THEN Get(args.notes) ELSE ""]

\* Lines 211-227.
RealEstateAccount(args, id) ==
    [id |-> id,
     name |-> args.name,
     category |-> "Real Estate",
     subtype |-> "Property",
     location |-> args.location,
     quantity |-> args.square_meters,
     unit |-> "square_meter",
     unit_price_eur |-> args.price_per_sqm,
     valuation_date |-> args.date,
     value_eur |-> FMul(args.square_meters, args.price_per_sqm),
     notes |-> IF TruthyStr(args.notes) THEN Get(args.notes) ELSE ""]

\* The key of cmd_dedupe (line 254) and of its sort (line 258).
Key(a) == <<Strip(a.name), Strip(a.valuation_date)>>
SortBefore(a, b) ==
    \/ Rank(a.valuation_date) < Rank(b.valuation_date)
    \/ a.valuation_date = b.valuation_date /\ Rank(a.name) < Rank(b.name)

\* A dict filled with setdefault: the first row of a key wins.
SurvivorFirst(rows, i) == rows[i]

\* The dict of lines 252-255 as list(deduped.values()): one entry per key, at
\* the position of the key's first row, holding the key's last row.
Survivor(rows, i) ==
    rows[CHOOSE j \in i..Len(rows) :
            /\ Key(rows[j]) = Key(rows[i])
            /\ \A k \in (j + 1)..Len(rows) : Key(rows[k]) # Key(rows[i])]

RECURSIVE DictValues(_, _)
DictValues(rows, i) ==
    IF i > Len(rows) THEN <<>>
    ELSE IF \E j \in 1..(i - 1) : Key(rows[j]) = Key(rows[i])
    THEN DictValues(rows, i + 1)
    ELSE <<Survivor(rows, i)>> \o DictValues(rows, i + 1)

\* list.sort(key=...): a stable sort, here by insertion.
RECURSIVE Insert(_, _)
Insert(sorted, a) ==
    IF sorted = <<>> THEN <<a>>
    ELSE IF SortBefore(a, Head(sorted)) THEN <<a>> \o sorted
    ELSE <<Head(sorted)>> \o Insert(Tail(sorted), a)

RECURSIVE SortRows(_)
SortRows(rows) ==
    IF rows = <<>> THEN <<>>
    ELSE Insert(SortRows(SubSeq(rows, 1, Len(rows) - 1)), rows[Len(rows)])

\* Lines 252-258: what cmd_dedupe writes back for the rows it read.
Deduped(rows) == SortRows(DictValues(rows, 1))

\* A rewrite that reads the store again as it writes (as under a lock held
\* over both).
RewriteCurrent(f, rows) == write_all(f, Deduped(read_all(f).rows))

\* Line 259: the file after cmd_dedupe has written back the rows it read.
Rewrite(f, rows) == write_all(f, Deduped(rows))

RECURSIVE Sum(_)
Sum(values) == IF values = <<>> THEN 0 ELSE Head(values) + Sum(Tail(values))

-----------------------------------------------------------------------------
(* The inputs of the model *)

Ids == {None, Some("x")}
Names == {"A", "B"}
Dates == {"2025-01-01", "2025-01-01 "}
Currencies == {"EUR", "eur", "USD"}
Amounts == {2 * One}
OfflineRates == {None, Some(2 * One)}
Categories == {None}
Notes == {None}

CashArgs ==
    [id : Ids, name : {"A"}, currency : Currencies, amount : Amounts, date : {"2025-01-01"},
     offline_rate : OfflineRates, category : Categories, notes : Notes]

RealEstateArgs ==
    [id : Ids, name : Names, location : {"Athens"}, square_meters : Amounts,
     price_per_sqm : {2 * One}, date : Dates, notes : Notes]

\* Two days; the first holds a lower-case code and two incomplete cubes.
Daily ==
    Xml(FALSE, << <<Cube(Some("usd"), Some("2.0")), Cube(None, Some("4.0")),
                   Cube(Some("CHF"), None)>>,
                  <<Cube(Some("USD"), Some("4.0"))>> >>)
Namespaced == Xml(TRUE, << <<Cube(Some("USD"), Some("2.0"))>> >>)

Documents == {Unreachable, NotXml, Daily, Namespaced}

\* Rows as a person may have typed them into accounts.csv.
TextRow(id, name, date, quantity, price, value) ==
    [id |-> id, name |-> name, category |-> "Cash", subtype |-> "EUR", location |-> "",
     quantity |-> quantity, unit |-> "EUR", unit_price_eur |-> price,
     valuation_date |-> date, value_eur |-> value, notes |-> ""]

RowWhole == TextRow("r1", "A", "2025-01-01", "2", "", "2.0")
RowSameKey == TextRow("r2", " A", "2025-01-01 ", "0.5", "1.0", "0.5")
RowMalformed == TextRow("r3", "B", "2025-01-01", "abc", "1.0", "2.0")

Stored(rows) == [exists |-> TRUE, rows |-> rows]

InitFiles ==
    {NoFile, Stored(<<>>), Stored(<<RowWhole>>), Stored(<<RowWhole, RowSameKey>>),
     Stored(<<RowWhole, RowMalformed>>), Stored(<<RowMalformed>>)}

-----------------------------------------------------------------------------
(* Sequential runs: one command at a time, each run to its end *)

NoCommand ==
    [cmd |-> "none", raised |-> "", afterDedupe |-> FALSE, cash |-> None, estate |-> None, doc |-> None,
     acct |-> None, fx |-> NoFx, read |-> None, out |-> <<>>]

\* uuid4().hex: a random id; it repeats no id of the store (the chance of a
\* collision is 2^-122 per row).
UuidPool == {"u" \o ToString(i) : i \in 1..MaxRows}
Uuid(f) == CHOOSE u \in UuidPool : \A i \in 1..Len(f.rows) : f.rows[i].id # u

\* main(), lines 318-319: a default id is generated, a given one is kept.
ResolveId(id, f) == IF IsNone(id) THEN Uuid(f) ELSE Get(id)

Init ==
    /\ file \in InitFiles
    /\ fetched = None
    /\ last = NoCommand
    /\ prevFile = file
    /\ pcD = "idle"
    /\ pcA = "idle"
    /\ snapshot = <<>>
    /\ pending = None
    /\ log = <<>>

Idle == UNCHANGED <<pcD, pcA, snapshot, pending, log>>

\* The history record of a command: its name, and whether the command before
\* it was a dedupe that completed.
Ran(cmd) ==
    [NoCommand EXCEPT !.cmd = cmd,
                      !.afterDedupe = (last.cmd = "dedupe" /\ last.raised = "")]

CmdAddCash ==
    /\ Len(file.rows) < MaxRows
    /\ \E args \in CashArgs, doc \in Documents :
        /\ LET v == Valuation(args, doc)
               acct == CashAccount(args, ResolveId(args.id, file), v)
           IN /\ file' = IF v.raised = "" THEN write_row(file, acct) ELSE file
              /\ fetched' = IF v.fx.returned THEN v.fx.rates ELSE fetched
              /\ last' = [Ran("add-cash") EXCEPT !.raised = v.raised,
                              !.cash = Some(args), !.doc = Some(doc),
                              !.acct = IF v.raised = "" THEN Some(acct) ELSE None,
                              !.fx = v.fx]
    /\ prevFile' = file
    /\ Idle

CmdAddRealEstate ==
    /\ Len(file.rows) < MaxRows
    /\ \E args \in RealEstateArgs :
        /\ LET acct == RealEstateAccount(args, ResolveId(args.id, file))
           IN /\ file' = write_row(file, acct)
              /\ last' = [Ran("add-real-estate") EXCEPT
                              !.estate = Some(args), !.acct = Some(acct)]
    /\ prevFile' = file
    /\ UNCHANGED fetched
    /\ Idle

CmdList ==
    /\ LET r == read_all(file)
       IN last' = [Ran("list") EXCEPT !.raised = r.raised,
                       !.read = IF r.raised = "" THEN Some(r.rows) ELSE None,
                       !.out = IF r.raised = "" THEN <<Len(r.rows)>> ELSE <<>>]
    /\ file' = ensure_storage(file)
    /\ prevFile' = file
    /\ UNCHANGED fetched
    /\ Idle

CmdTotal ==
    /\ LET r == read_all(file)
       IN last' = [Ran("total") EXCEPT !.raised = r.raised,
                       !.read = IF r.raised = "" THEN Some(r.rows) ELSE None,
                       !.out = IF r.raised = ""
                               THEN <<Sum([i \in 1..Len(r.rows) |-> r.rows[i].value_eur])>>
                               ELSE <<>>]
    /\ file' = ensure_storage(file)
    /\ prevFile' = file
    /\ UNCHANGED fetched
    /\ Idle

CmdDedupe ==
    /\ LET r == read_all(file)
           out == Deduped(r.rows)
       IN /\ last' = [Ran("dedupe") EXCEPT !.raised = r.raised,
                          !.read = IF r.raised = "" THEN Some(r.rows) ELSE None,
                          !.out = IF r.raised = "" THEN <<Len(r.rows), Len(out)>> ELSE <<>>]
          /\ file' = IF r.raised = "" THEN Rewrite(ensure_storage(file), r.rows)
                     ELSE ensure_storage(file)
    /\ prevFile' = file
    /\ UNCHANGED fetched
    /\ Idle

Next == CmdAddCash \/ CmdAddRealEstate \/ CmdList \/ CmdTotal \/ CmdDedupe

Spec == Init /\ [][Next]_vars

-----------------------------------------------------------------------------
(* Concurrent runs: one process runs dedupe while another runs                *)
(* add-real-estate on the same accounts.csv.  A step is one file operation:   *)
(* the exists() test of ensure_storage, or one `with STORAGE.open(...)` block.*)
(* No step waits for another: the code takes no lock.                         *)

InitConc ==
    /\ file \in InitFiles
    /\ fetched = None
    /\ last = NoCommand
    /\ prevFile = file
    /\ pcD = "start"
    /\ pcA = "start"
    /\ snapshot = <<>>
    /\ \E args \in RealEstateArgs :
           pending = Some(RealEstateAccount(args, ResolveId(args.id, file)))
    /\ log = <<>>

History == UNCHANGED <<fetched, last, prevFile>>

\* cmd_dedupe -> read_all -> ensure_storage, line 102.
DedupeEnsure ==
    /\ pcD = "start"
    /\ pcD' = IF file.exists THEN "read" ELSE "create"
    /\ UNCHANGED <<file, pcA, snapshot, pending, log>>
    /\ History

\* cmd_dedupe -> read_all -> ensure_storage, lines 103-104.
DedupeCreate ==
    /\ pcD = "create"
    /\ file' = HeaderOnly
    /\ pcD' = "read"
    /\ UNCHANGED <<pcA, snapshot, pending, log>>
    /\ History

\* cmd_dedupe -> read_all, lines 125-129.
DedupeRead ==
    /\ pcD = "read"
    /\ LET r == read_all(file)
       IN /\ pcD' = IF r.raised = "" THEN "write" ELSE "raised"
          /\ snapshot' = r.rows
    /\ log' = Append(log, "read")
    /\ UNCHANGED <<file, pcA, pending>>
    /\ History

\* cmd_dedupe, lines 252-259: write_all of the rows read.
DedupeWrite ==
    /\ pcD = "write"
    /\ file' = Rewrite(file, snapshot)
    /\ pcD' = "done"
    /\ log' = Append(log, "rewrite")
    /\ UNCHANGED <<pcA, snapshot, pending>>
    /\ History

\* cmd_add_real_estate -> write_row -> ensure_storage, line 102.
AddEnsure ==
    /\ pcA = "start"
    /\ pcA' = IF file.exists THEN "append" ELSE "create"
    /\ UNCHANGED <<file, pcD, snapshot, pending, log>>
    /\ History

\* cmd_add_real_estate -> write_row -> ensure_storage, lines 103-104.
AddCreate ==
    /\ pcA = "create"
    /\ file' = HeaderOnly
    /\ pcA' = "append"
    /\ UNCHANGED <<pcD, snapshot, pending, log>>
    /\ History

\* cmd_add_real_estate -> write_row, lines 109-110.
AddAppend ==
    /\ pcA = "append"
    /\ file' = [file EXCEPT !.rows = Append(@, AsRow(Get(pending)))]
    /\ pcA' = "done"
    /\ log' = Append(log, "append")
    /\ UNCHANGED <<pcD, snapshot, pending>>
    /\ History

NextConc ==
    \/ DedupeEnsure \/ DedupeCreate \/ DedupeRead \/ DedupeWrite
    \/ AddEnsure \/ AddCreate \/ AddAppend

SpecConc == InitConc /\ [][NextConc]_vars

-----------------------------------------------------------------------------
(* Properties of the sequential runs *)

\* What the property statements say of the inputs, in their own words.
EurSpellings == {"EUR", "eur"}
FetchFails(doc) == doc.kind \in {"unreachable", "malformed"}
WellFormed(f) == \A i \in 1..Len(f.rows) : RowParses(f.rows[i])
WellFormedRows(f) ==
    LET kept == SelectSeq(f.rows, RowParses)
    IN [i \in 1..Len(kept) |-> from_csv_row(kept[i])]
Reads == {"list", "total", "dedupe"}
Adds == {"add-cash", "add-real-estate"}
Appended == last.cmd \in Adds /\ last.raised = ""
CashRun == last.cmd = "add-cash"
CashArg == Get(last.cash)

\* C1: read_all returns exactly the rows whose numeric fields are numeric or
\* empty, in file order, and skips the others; list, total and dedupe
\* complete on a store that holds a malformed row.
ReadAllSkipsMalformedRows ==
    last.cmd \in Reads =>
        /\ last.raised = ""
        /\ last.read = Some(WellFormedRows(prevFile))

\* C2: a rate lookup whose live fetch fails returns the snapshot of the most
\* recent successful fetch when there is one, and fails only when the fetch
\* fails and no earlier fetch succeeded.
RatesFallBackToCache ==
    (CashRun /\ last.fx.called) =>
        /\ (FetchFails(Get(last.doc)) /\ ~IsNone(fetched)) => last.fx.rates = fetched
        /\ ~last.fx.returned => (FetchFails(Get(last.doc)) /\ IsNone(fetched))

\* C3: add-cash for a non-EUR currency whose rate lookup fails, run without
\* an offline rate, fails and leaves the store exactly as it was.
NoRecordWithoutResolvedValue ==
    (/\ CashRun
     /\ CashArg.currency \notin EurSpellings
     /\ last.fx.raised # ""
     /\ IsNone(CashArg.offline_rate))
        => /\ last.raised # ""
           /\ last.raised = last.fx.raised
           /\ IsNone(last.acct)
           /\ file = prevFile

LookupFailedWithoutOfflineRate ==
    /\ CashRun
    /\ CashArg.currency \notin EurSpellings
    /\ last.fx.raised # ""
    /\ IsNone(CashArg.offline_rate)
    /\ last.raised # ""
    /\ prevFile.rows # <<>>

\* C4: add-cash for a non-EUR currency that the provider's snapshot does not
\* hold raises the conversion error and appends nothing, with or without an
\* offline rate.
UnknownCurrencyIsFatal ==
    (/\ CashRun
     /\ CashArg.currency \notin EurSpellings
     /\ last.fx.returned
     /\ Upper(CashArg.currency) \notin DOMAIN Get(last.fx.rates))
        => /\ last.raised = "ValueError"
           /\ file = prevFile

\* C5: no two rows of the store have the same id.
IdsUnique ==
    \A i, j \in 1..Len(file.rows) : i # j => file.rows[i].id # file.rows[j].id

DedupeIdempotent ==
    (last.cmd = "dedupe" /\ last.afterDedupe) =>
        /\ last.raised = ""
        /\ file = prevFile
        /\ last.out[1] = last.out[2]
        /\ last.out[1] = Len(file.rows)

DedupedTwice ==
    /\ last.cmd = "dedupe"
    /\ last.afterDedupe
    /\ Len(file.rows) = 2

\* C8: read_all after an append returns what read_all returned before it,
\* followed by the appended record; the rows that were there are untouched.
AppendRoundTrip ==
    Appended =>
        /\ read_all(prevFile).raised = ""
        /\ read_all(file).raised = ""
        /\ read_all(file).rows = Append(read_all(prevFile).rows, Get(last.acct))
        /\ file.rows = Append(prevFile.rows, AsRow(Get(last.acct)))

\* The same on the stores that hold no malformed row.
AppendRoundTripOnWellFormedStore == WellFormed(prevFile) => AppendRoundTrip

\* C9: add-cash in EUR, in any letter case, calls no rate lookup, succeeds
\* whatever the rate source would answer, and appends a record with
\* value_eur = amount, unit_price_eur = 1.0, unit = subtype = "EUR".
EurCashNeedsNoRate ==
    (CashRun /\ CashArg.currency \in EurSpellings) =>
        /\ ~last.fx.called
        /\ last.raised = ""
        /\ ~IsNone(last.acct)
        /\ Get(last.acct).value_eur = CashArg.amount
        /\ Get(last.acct).quantity = CashArg.amount
        /\ Get(last.acct).unit_price_eur = One
        /\ Get(last.acct).unit = "EUR"
        /\ Get(last.acct).subtype = "EUR"
        /\ file.rows = Append(prevFile.rows, AsRow(Get(last.acct)))

LowerCaseEurAddedOffline ==
    /\ CashRun
    /\ CashArg.currency = "eur"
    /\ FetchFails(Get(last.doc))
    /\ last.raised = ""
    /\ Len(file.rows) = Len(prevFile.rows) + 1

-----------------------------------------------------------------------------
(* Properties of the concurrent runs *)

BothDone == pcD = "done" /\ pcA = "done"
AppendedBetween == log = <<"read", "append", "rewrite">>
InStore(acct) == \E i \in 1..Len(file.rows) : file.rows[i] = AsRow(acct)

\* C10: when the append completes between dedupe's read and its rewrite, the
\* rewrite puts back what was read and the appended record is gone from the
\* store; nothing in the store operations excludes this interleaving.
AppendBetweenReadAndRewriteIsLost ==
    (BothDone /\ AppendedBetween) =>
        /\ file.rows = AsRows(Deduped(snapshot))
        /\ ~InStore(Get(pending))

LostUpdate ==
    /\ BothDone
    /\ AppendedBetween
    /\ ~InStore(Get(pending))
    /\ Len(file.rows) > 0

====
